---- MODULE Spec2Model ----
(***************************************************************************)
(* Workflow patterns of finrobot/agents/workflows.py: SingleAssistant,     *)
(* SingleAssistantRAG, SingleAssistantShadow, MultiAssistant and           *)
(* MultiAssistantWithLeader, with their conversation threads, the          *)
(* delegation parsing of the leader pattern and the backend exchanges.     *)
(*                                                                         *)
(* A text is a sequence of one-character strings.  A thread is an entry of *)
(* the heap `threads`; its identity is its index.                          *)
(***************************************************************************)
EXTENDS Integers, Sequences, FiniteSets, TLC

\* ------------------------------------------------------------------ bounds
\* chunks concatenated into one parsed text (SpecParse)
MaxParts == 4
\* chat and reset calls made on one workflow instance
MaxOps == 3

\* ------------------------------------------------------------------- texts
SetMax(S) == CHOOSE x \in S : \A y \in S : y <= x
SetMin(S) == CHOOSE x \in S : \A y \in S : x <= y

\* \s of the re module, over the characters the model uses
IsSpace(c) == c \in {" ", "\n"}

\* str.strip(): leading and trailing whitespace removed
RECURSIVE LStrip(_)
LStrip(s) == IF s # <<>> /\ IsSpace(Head(s)) THEN LStrip(Tail(s)) ELSE s

RECURSIVE RStrip(_)
RStrip(s) ==
    IF s # <<>> /\ IsSpace(s[Len(s)]) THEN RStrip(SubSeq(s, 1, Len(s) - 1)) ELSE s

Strip(s) == RStrip(LStrip(s))

\* the text of an f-string: its parts concatenated
RECURSIVE Concat(_)
Concat(parts) == IF parts = <<>> THEN <<>> ELSE Head(parts) \o Concat(Tail(parts))

\* --------------------------------------------------- delegation_pattern
\* r'\[([^\]]+)\]\s*(.+)'
\* [^\]]+ is greedy and must be followed by "]": it ends right before the
\* first "]" after the opening bracket (0: there is none).
NameEnd(t, i) ==
    LET close == {j \in (i + 1)..Len(t) : t[j] = "]"}
    IN IF close = {} THEN 0 ELSE SetMin(close)

\* the positions where (.+) can start once "]" at j is matched: \s* has
\* consumed only whitespace, and "." matches any character but a newline
InstructionStarts(t, j) ==
    {p \in (j + 1)..Len(t) :
        t[p] # "\n" /\ \A k \in (j + 1)..(p - 1) : IsSpace(t[k])}

\* (.+) is greedy: it runs to the end of the line it starts on
LineEnd(t, p) ==
    SetMax({e \in p..Len(t) : \A k \in p..e : t[k] # "\n"})

NoMatch == [matched |-> FALSE, group1 |-> <<>>, group2 |-> <<>>]

\* the pattern tried at position i alone; \s* is greedy, so (.+) starts at
\* the last position backtracking allows
MatchAt(t, i) ==
    IF i > Len(t) \/ t[i] # "[" THEN NoMatch
    ELSE LET j == NameEnd(t, i)
         IN IF j = 0 \/ j = i + 1 \/ InstructionStarts(t, j) = {} THEN NoMatch
            ELSE LET p == SetMax(InstructionStarts(t, j))
                 IN [matched |-> TRUE,
                     group1  |-> SubSeq(t, i + 1, j - 1),
                     group2  |-> SubSeq(t, p, LineEnd(t, p))]

Occurrences(t) == {i \in 1..Len(t) : MatchAt(t, i).matched}

\* variant: the rightmost position at which the pattern matches
SearchLast(t) ==
    IF Occurrences(t) = {} THEN NoMatch ELSE MatchAt(t, SetMax(Occurrences(t)))

\* re.search: the leftmost position at which the pattern matches
Search(t) ==
    IF Occurrences(t) = {} THEN NoMatch ELSE MatchAt(t, SetMin(Occurrences(t)))

\* variant: the name is lower-cased before it is looked up
Lower(c) == IF c = "A" THEN "a" ELSE c
LowerText(t) == [i \in 1..Len(t) |-> Lower(t[i])]
ParseLowered(t) ==
    LET m == Search(t)
    IN [matched          |-> m.matched,
        team_member_name |-> LowerText(Strip(m.group1)),
        instruction      |-> Strip(m.group2)]

\* lines 467-471: match, match.group(1).strip(), match.group(2).strip()
ParseDelegation(t) ==
    LET m == Search(t)
    IN [matched          |-> m.matched,
        team_member_name |-> Strip(m.group1),
        instruction      |-> Strip(m.group2)]

\* ------------------------------------------------ parsed texts (SpecParse)
Chunks ==
    { <<"[", "a", "]">>, <<"[", "b", "]">>, <<"[", "A", "]">>,
      <<"[">>, <<"]">>, <<" ">>, <<"\n">>, <<"x">> }

ChunkSeqs == UNION {[1..n -> Chunks] : n \in 0..MaxParts}

Texts == {Concat(cs) : cs \in ChunkSeqs}

\* ------------------------------------------------- inputs of the workflows
\* chat(message)
Messages == { <<"A">>, <<"B">> }

\* response texts of the backend to a leader exchange
LeaderReplies ==
    { <<"o", "k">>,
      <<"[", "a", "]", " ", "x">>,
      <<"[", "b", "]", "x", " ", "y">>,
      <<"[", "A", "]", " ", "x">>,
      <<"[", "c", "]", " ", "x">>,
      <<"[", "A", "]", " ", "x", " ", "[", "a", "]", " ", "y">>,
      <<"[", "a", "]", " ", "x", "\n", "[", "b", "]", " ", "y">>,
      <<"[", "a", "]", " ">>,
      <<"[", "a", "]">>,
      <<"[", " ", "a", " ", "]", " ", "x", " ">>,
      <<"x", " ", "[", "b", "]", " ", "y", "\n", "z">>,
      <<"[", "a", "]", "\n", "x">> }

\* response texts of the backend to the leader's feedback exchange
FinalReplies ==
    { <<"d", "o", "n", "e">>,
      <<"[", "b", "]", " ", "x">>,
      <<"[", "a", "]", " ", "x">> }

\* response texts of the backend to any other exchange
Replies == { <<"r">>, <<"s">> }

\* the failure a backend exchange can end with
BackendErrors == { <<"TransportError">> }

\* team_configs / agent_configs a workflow is constructed with
Rosters == { << <<"a">>, <<"b">> >>, << <<"a">>, <<"a">> >> }

LeaderName == <<"L">>
ShadowSuffix == <<"_Shadow">>

\* passages the retriever returns
DocLists == { <<>>, << <<"d">> >>, << <<"d">>, <<"e">> >> }

\* --------------------------------------------------------------- state
VARIABLES
    kind,           \* the workflow class of the instance
    agent,          \* self.agent (self.leader): the primary agent handle
    shadow_agent,   \* self.shadow_agent
    team,           \* self.team / self.agents: the roster, a sequence of handles
    max_rounds,     \* self.max_rounds
    max_turns,      \* self.max_turns (0: no such attribute)
    selector_func,  \* self.selector_func: "none" or "custom"
    rag_retriever,  \* self.rag_retriever: "unset", "none" or "ok"
    thread,         \* self.thread: a thread identity (0: no such attribute)
    shadow_thread,  \* self.shadow_thread
    team_threads,   \* self.team_threads: name -> thread identity
    conversation_history, \* self.conversation_history
    threads,        \* every thread minted so far: [owner, turns]
    pc,             \* where the chat coroutine is suspended ("idle": no call)
    frame,          \* the locals of the chat call
    log,            \* the backend exchanges of the current (last) chat call
    result,         \* what the last chat call returned or raised
    stream,         \* the fragment stream the last chat(stream=True) returned
    calls,          \* chat calls started
    resets,         \* reset() calls made
    fresh,          \* a reset() returned while idle and no chat started since
    reset_result    \* what the last reset() call did: "none", "returned", "raised"

VARIABLES
    text,       \* SpecParse: the leader response text handed to the parser
    parsed,     \* SpecParse: {} before, {the parse result} after parsing `text`
    request,    \* SpecCreate: the constructor (or create_agent) call
    outcome,    \* SpecCreate: {} before, {what the call did} after it
    response,   \* SpecExtract: the value handed to extract_response_text
    extracted   \* SpecExtract: {} before, {what the call did} after it

\* the variables of the specifications of single functions
parseVars == <<text, parsed, request, outcome, response, extracted>>

flowVars ==
    <<kind, agent, shadow_agent, team, max_rounds, max_turns, selector_func,
      rag_retriever, thread, shadow_thread, team_threads,
      conversation_history, threads, pc, frame, log, result, stream, calls,
      resets, fresh, reset_result>>

vars == <<flowVars, parseVars>>

\* ---------------------------------------------------------- conventions
NoHandle == [id |-> 0, name |-> <<>>]
Handle(i, n) == [id |-> i, name |-> n]

PrimaryId == 1
ShadowId == 2
\* the roster created from the configurations, in their order
TeamOf(cfg) == [i \in 1..Len(cfg) |-> Handle(ShadowId + i, cfg[i])]

NoFrame ==
    [message |-> <<>>, stream |-> FALSE, team_member_name |-> <<>>,
     clean |-> FALSE, round |-> 0]

NoResult == [status |-> "none", text |-> <<>>]
Returned(t) == [status |-> "returned", text |-> t]
Raised(err) == [status |-> "raised", text |-> err]
\* chat returned the async generator of run_stream, not yet iterated
StreamResult == [status |-> "stream", text |-> <<>>]

NoStream ==
    [state |-> "none", agent |-> 0, thread |-> 0, msg |-> <<>>, step |-> "",
     call |-> 0, prior |-> <<>>, kwargs |-> {},
     reply |-> [status |-> "pending", text |-> <<>>]]

Pending == [status |-> "pending", text |-> <<>>]
Ok(t) == [status |-> "ok", text |-> t]
Failed(err) == [status |-> "failed", text |-> err]

Last(s) == s[Len(s)]

\* ----------------------------------------------------- threads, exchanges
\* agent.get_new_thread(): a new empty thread; its identity is Len(heap) + 1
Mint(heap, a) == Append(heap, [owner |-> a.id, turns |-> <<>>])

\* the turns one completed exchange appends to the thread it was given
TurnsOf(call, step) ==
    << [call |-> call, step |-> step, role |-> "user"],
       [call |-> call, step |-> step, role |-> "assistant"] >>

\* variant: the agent is run without the transcript of the thread
ExchangeWithoutHistory(heap, a, tid, msg, step, call) ==
    [agent |-> a.id, thread |-> tid, msg |-> msg, step |-> step, call |-> call,
     prior |-> <<>>, kwargs |-> {}, reply |-> Pending]

\* agent.run(msg, thread=tid) is called: the exchange starts with the
\* transcript the thread holds at this moment
\* (kwargs: the keyword arguments passed besides thread)
Exchange(heap, a, tid, msg, step, call) ==
    [agent |-> a.id, thread |-> tid, msg |-> msg, step |-> step, call |-> call,
     prior |-> heap[tid].turns, kwargs |-> {}, reply |-> Pending]

\* the exchange e returned: its turns are appended to the thread it was given
Deliver(heap, e) ==
    [heap EXCEPT ![e.thread].turns = @ \o TurnsOf(e.call, e.step)]

\* the log with its last (in-flight) exchange answered
Answered(l, r) == [l EXCEPT ![Len(l)].reply = r]

\* ------------------------------------------------------------ construction
EmptyMap == [x \in {} |-> 0]
Put(map, k, v) == [x \in DOMAIN map \cup {k} |-> IF x = k THEN v ELSE map[x]]

\* {agent.name: agent.get_new_thread() for agent in self.team}: one thread is
\* minted per roster entry, in roster order; a later entry of the same name
\* replaces the earlier one under that key
RECURSIVE MintTeamFrom(_, _, _, _)
MintTeamFrom(heap, tm, i, map) ==
    IF i > Len(tm) THEN [threads |-> heap, team_threads |-> map]
    ELSE MintTeamFrom(Mint(heap, tm[i]), tm, i + 1,
                      Put(map, tm[i].name, Len(heap) + 1))

NewTeamThreads(heap, tm) == MintTeamFrom(heap, tm, 1, EmptyMap)

NoRequest == [call |-> "none"]

NoResponse == [base |-> "none"]

\* what every constructor leaves behind besides its own attributes
Constructed(k) ==
    /\ kind = k
    /\ pc = "idle"
    /\ frame = NoFrame
    /\ log = <<>>
    /\ result = NoResult
    /\ stream = NoStream
    /\ calls = 0
    /\ resets = 0
    /\ fresh = FALSE
    /\ reset_result = "none"
    /\ text = <<>>
    /\ parsed = {}
    /\ request = NoRequest
    /\ outcome = {}
    /\ response = NoResponse
    /\ extracted = {}

\* MultiAssistantWithLeader.__init__
LeaderInit ==
    /\ Constructed("MultiAssistantWithLeader")
    /\ agent = Handle(PrimaryId, LeaderName)
    /\ shadow_agent = NoHandle
    /\ \E cfg \in Rosters :
          /\ team = TeamOf(cfg)
          /\ LET made == NewTeamThreads(Mint(<<>>, agent), TeamOf(cfg))
             IN /\ threads = made.threads
                /\ team_threads = made.team_threads
    /\ thread = 1
    /\ shadow_thread = 0
    /\ max_rounds = 10
    /\ max_turns = 0
    /\ selector_func = "none"
    /\ rag_retriever = "unset"
    /\ conversation_history = <<>>

\* ------------------------------------------------ MultiAssistantWithLeader
\* for agent in self.team: if agent.name == team_member_name: ... break
\* (0: team_member stays None)
FindTeamMember(tm, name) ==
    LET hits == {i \in 1..Len(tm) : tm[i].name = name}
    IN IF hits = {} THEN 0 ELSE SetMin(hits)

\* variant: the feedback without the agent's name
FeedbackUnnamed(name, member_text) == <<"Result: ">> \o member_text

\* f"Result from {team_member_name}: {member_response.text}"
Feedback(name, member_text) ==
    Concat(<< <<"Result from ">>, name, <<": ">>, member_text >>)

\* chat(message) is called: line 461 starts the first leader exchange
LeaderChat(message) ==
    /\ kind = "MultiAssistantWithLeader"
    /\ pc = "idle"
    /\ calls + resets < MaxOps
    /\ calls' = calls + 1
    /\ frame' = [NoFrame EXCEPT !.message = message, !.clean = fresh]
    /\ log' = << Exchange(threads, agent, thread, message, "leader", calls + 1) >>
    /\ result' = NoResult
    /\ fresh' = FALSE
    /\ pc' = "leader_run"
    /\ UNCHANGED <<kind, agent, shadow_agent, team, max_rounds, max_turns, selector_func,
                   rag_retriever,
                   thread, shadow_thread, team_threads, conversation_history,
                   threads, stream, resets, reset_result, parseVars>>

\* line 461 returns leader_response; lines 465-483: the response is parsed
\* and either returned (line 490) or the member exchange is started
LeaderResponse(reply) ==
    /\ pc = "leader_run"
    /\ LET heap == Deliver(threads, Last(log))
           d == ParseDelegation(reply)
           found == FindTeamMember(team, d.team_member_name)
       IN IF d.matched /\ found # 0
          THEN /\ threads' = heap
               /\ log' = Append(Answered(log, Ok(reply)),
                                Exchange(heap, team[found],
                                         team_threads[d.team_member_name],
                                         d.instruction, "member", calls))
               /\ frame' = [frame EXCEPT !.team_member_name = d.team_member_name]
               /\ pc' = "member_run"
               /\ UNCHANGED result
          ELSE /\ threads' = heap
               /\ log' = Answered(log, Ok(reply))
               /\ result' = Returned(reply)
               /\ pc' = "idle"
               /\ UNCHANGED frame
    /\ UNCHANGED <<kind, agent, shadow_agent, team, max_rounds, max_turns, selector_func,
                   rag_retriever,
                   thread, shadow_thread, team_threads, conversation_history,
                   stream, calls, resets, fresh, reset_result, parseVars>>

\* line 483 returns member_response; lines 486-487: the feedback is built
\* and sent to the leader on self.thread
MemberResponse(reply) ==
    /\ pc = "member_run"
    /\ LET heap == Deliver(threads, Last(log))
           feedback == Feedback(frame.team_member_name, reply)
       IN /\ threads' = heap
          /\ log' = Append(Answered(log, Ok(reply)),
                           Exchange(heap, agent, thread, feedback, "feedback",
                                    calls))
    /\ pc' = "feedback_run"
    /\ UNCHANGED <<kind, agent, shadow_agent, team, max_rounds, max_turns, selector_func,
                   rag_retriever,
                   thread, shadow_thread, team_threads, conversation_history,
                   frame, result, stream, calls, resets, fresh, reset_result,
                   parseVars>>

\* variant: the second leader response is parsed for a further delegation
FinalResponseRedelegates(reply) ==
    /\ pc = "feedback_run"
    /\ LET heap == Deliver(threads, Last(log))
           d == ParseDelegation(reply)
           found == FindTeamMember(team, d.team_member_name)
       IN IF d.matched /\ found # 0
          THEN /\ threads' = heap
               /\ log' = Append(Answered(log, Ok(reply)),
                                Exchange(heap, team[found],
                                         team_threads[d.team_member_name],
                                         d.instruction, "member", calls))
               /\ frame' = [frame EXCEPT !.team_member_name = d.team_member_name]
               /\ pc' = "member_run"
               /\ UNCHANGED result
          ELSE /\ threads' = heap
               /\ log' = Answered(log, Ok(reply))
               /\ result' = Returned(reply)
               /\ pc' = "idle"
               /\ UNCHANGED frame
    /\ UNCHANGED <<kind, agent, shadow_agent, team, max_rounds, max_turns, selector_func,
                   rag_retriever,
                   thread, shadow_thread, team_threads, conversation_history,
                   stream, calls, resets, fresh, reset_result, parseVars>>

\* line 487 returns final_response; line 488 returns it
FinalResponse(reply) ==
    /\ pc = "feedback_run"
    /\ threads' = Deliver(threads, Last(log))
    /\ log' = Answered(log, Ok(reply))
    /\ result' = Returned(reply)
    /\ pc' = "idle"
    /\ UNCHANGED <<kind, agent, shadow_agent, team, max_rounds, max_turns, selector_func,
                   rag_retriever,
                   thread, shadow_thread, team_threads, conversation_history,
                   frame, stream, calls, resets, fresh, reset_result, parseVars>>

\* variant: a failed member exchange is reported to the leader as a result
LeaderExchangeFailsFeedsBack(err) ==
    /\ pc \in {"leader_run", "member_run", "feedback_run"}
    /\ IF pc = "member_run"
       THEN /\ log' = Append(Answered(log, Failed(err)),
                             Exchange(threads, agent, thread,
                                      Feedback(frame.team_member_name, err),
                                      "feedback", calls))
            /\ pc' = "feedback_run"
            /\ UNCHANGED result
       ELSE /\ log' = Answered(log, Failed(err))
            /\ result' = Raised(err)
            /\ pc' = "idle"
    /\ UNCHANGED <<kind, agent, shadow_agent, team, max_rounds, max_turns, selector_func,
                   rag_retriever, thread, shadow_thread, team_threads,
                   conversation_history, threads, frame, stream, calls, resets,
                   fresh, reset_result, parseVars>>

\* variant: a failed call starts the leader over on a new thread
LeaderExchangeFailsRollsBack(err) ==
    /\ pc \in {"leader_run", "member_run", "feedback_run"}
    /\ log' = Answered(log, Failed(err))
    /\ result' = Raised(err)
    /\ pc' = "idle"
    /\ threads' = Mint(threads, agent)
    /\ thread' = Len(threads) + 1
    /\ UNCHANGED <<kind, agent, shadow_agent, team, max_rounds, max_turns,
                   selector_func, rag_retriever, shadow_thread, team_threads,
                   conversation_history, frame, stream, calls, resets, fresh,
                   reset_result, parseVars>>

\* an awaited exchange of the leader pattern (line 461, 483 or 487) raises:
\* nothing catches it, chat raises it
LeaderExchangeFails(err) ==
    /\ pc \in {"leader_run", "member_run", "feedback_run"}
    /\ log' = Answered(log, Failed(err))
    /\ result' = Raised(err)
    /\ pc' = "idle"
    /\ UNCHANGED <<kind, agent, shadow_agent, team, max_rounds, max_turns, selector_func,
                   rag_retriever,
                   thread, shadow_thread, team_threads, conversation_history,
                   threads, frame, stream, calls, resets, fresh, reset_result,
                   parseVars>>

\* variant: only super().reset()
ResetLeaderOnly(heap, ag, tm, old) ==
    [threads |-> Mint(heap, ag), thread |-> Len(heap) + 1, team_threads |-> old]

\* MultiAssistantWithLeader.reset(): super().reset(), then every team thread
ResetAll(heap, ag, tm, old) ==
    LET made == NewTeamThreads(Mint(heap, ag), tm)
    IN [threads |-> made.threads, thread |-> Len(heap) + 1,
        team_threads |-> made.team_threads]

LeaderReset ==
    /\ kind = "MultiAssistantWithLeader"
    /\ calls + resets < MaxOps
    /\ resets' = resets + 1
    /\ LET r == ResetAll(threads, agent, team, team_threads)
       IN /\ threads' = r.threads
          /\ thread' = r.thread
          /\ team_threads' = r.team_threads
    /\ fresh' = (pc = "idle")
    /\ reset_result' = "returned"
    /\ UNCHANGED <<kind, agent, shadow_agent, team, max_rounds, max_turns, selector_func,
                   rag_retriever,
                   shadow_thread, conversation_history, pc, frame, log, result,
                   stream, calls, parseVars>>

\* reset() when a get_new_thread() of it raises: at line 494 nothing has
\* changed yet; at line 495 self.thread is already replaced and
\* self.team_threads is not assigned
LeaderResetFails(at_base) ==
    /\ kind = "MultiAssistantWithLeader"
    /\ calls + resets < MaxOps
    /\ resets' = resets + 1
    /\ IF at_base
       THEN UNCHANGED <<threads, thread>>
       ELSE /\ threads' = Mint(threads, agent)
            /\ thread' = Len(threads) + 1
    /\ fresh' = FALSE
    /\ reset_result' = "raised"
    /\ UNCHANGED <<kind, agent, shadow_agent, team, max_rounds, max_turns, selector_func,
                   rag_retriever,
                   shadow_thread, team_threads, conversation_history, pc, frame,
                   log, result, stream, calls, parseVars>>

LeaderNext ==
    \/ \E message \in Messages : LeaderChat(message)
    \/ \E reply \in LeaderReplies : LeaderResponse(reply)
    \/ \E reply \in Replies : MemberResponse(reply)
    \/ \E reply \in FinalReplies : FinalResponse(reply)
    \/ \E err \in BackendErrors : LeaderExchangeFails(err)
    \/ LeaderReset
    \/ \E at_base \in BOOLEAN : LeaderResetFails(at_base)

SpecLeader == LeaderInit /\ [][LeaderNext]_vars

\* ------------------------------------------------------ fragment streams
\* agent.run_stream(msg, thread=tid) is called and its async generator is
\* returned un-iterated: the thread is bound now, the exchange starts when
\* the caller iterates
NewStream(a, tid, msg, step, call) ==
    [state |-> "pending", agent |-> a.id, thread |-> tid, msg |-> msg,
     step |-> step, call |-> call, prior |-> <<>>, kwargs |-> {}, reply |-> Pending]

\* the caller iterates the stream to its end: one exchange on the thread the
\* stream was bound to
StreamIterated(reply) ==
    /\ stream.state = "pending"
    /\ stream' = [stream EXCEPT !.state = "done",
                                !.prior = threads[stream.thread].turns,
                                !.reply = Ok(reply)]
    /\ threads' = Deliver(threads, stream)
    /\ UNCHANGED <<kind, agent, shadow_agent, team, max_rounds, max_turns, selector_func,
                   rag_retriever,
                   thread, shadow_thread, team_threads, conversation_history,
                   pc, frame, log, result, calls, resets, fresh, reset_result,
                   parseVars>>

\* the exchange of the stream raises while the caller iterates it
StreamFails(err) ==
    /\ stream.state = "pending"
    /\ stream' = [stream EXCEPT !.state = "done",
                                !.prior = threads[stream.thread].turns,
                                !.reply = Failed(err)]
    /\ UNCHANGED <<kind, agent, shadow_agent, team, max_rounds, max_turns, selector_func,
                   rag_retriever,
                   thread, shadow_thread, team_threads, conversation_history,
                   threads, pc, frame, log, result, calls, resets, fresh,
                   reset_result, parseVars>>

\* ------------------------------------------- WorkflowBase, SingleAssistant
PrimaryName == <<"P">>

\* max_turns values a SingleAssistant is constructed with (default 10)
TurnLimits == {3, 10}

\* WorkflowBase.__init__ (lines 48-60), then self.max_turns = max_turns
SingleInit ==
    /\ Constructed("SingleAssistant")
    /\ agent = Handle(PrimaryId, PrimaryName)
    /\ shadow_agent = NoHandle
    /\ team = <<>>
    /\ threads = Mint(<<>>, agent)
    /\ thread = 1
    /\ shadow_thread = 0
    /\ team_threads = EmptyMap
    /\ max_rounds = 10
    /\ max_turns \in TurnLimits
    /\ selector_func = "none"
    /\ rag_retriever = "unset"
    /\ conversation_history = <<>>

\* the call of chat up to its first suspension, given the message that goes
\* to the agent (lines 113-118, 206-209)
Run(message, sent, streaming) ==
    /\ calls' = calls + 1
    /\ frame' = [NoFrame EXCEPT !.message = message, !.stream = streaming,
                                !.clean = fresh]
    /\ fresh' = FALSE
    /\ IF streaming
       THEN /\ stream' = NewStream(agent, thread, sent, "run", calls + 1)
            /\ log' = <<>>
            /\ result' = StreamResult
            /\ pc' = "idle"
       ELSE /\ log' = << Exchange(threads, agent, thread, sent, "run", calls + 1) >>
            /\ result' = NoResult
            /\ pc' = "agent_run"
            /\ UNCHANGED stream
    /\ UNCHANGED <<kind, agent, shadow_agent, team, max_rounds, max_turns, selector_func,
                   rag_retriever,
                   thread, shadow_thread, team_threads, conversation_history,
                   threads, resets, reset_result, parseVars>>

\* SingleAssistant.chat(message, stream)
SingleChat(message, streaming) ==
    /\ kind = "SingleAssistant"
    /\ pc = "idle"
    /\ calls + resets < MaxOps
    /\ Run(message, message, streaming)

\* line 118 / 209 returns the response; line 119 / 210 returns it
RunResponse(reply) ==
    /\ pc = "agent_run"
    /\ threads' = Deliver(threads, Last(log))
    /\ log' = Answered(log, Ok(reply))
    /\ result' = Returned(reply)
    /\ pc' = "idle"
    /\ UNCHANGED <<kind, agent, shadow_agent, team, max_rounds, max_turns, selector_func,
                   rag_retriever,
                   thread, shadow_thread, team_threads, conversation_history,
                   frame, stream, calls, resets, fresh, reset_result, parseVars>>

\* line 118 / 209 raises
RunFails(err) ==
    /\ pc = "agent_run"
    /\ log' = Answered(log, Failed(err))
    /\ result' = Raised(err)
    /\ pc' = "idle"
    /\ UNCHANGED <<kind, agent, shadow_agent, team, max_rounds, max_turns, selector_func,
                   rag_retriever,
                   thread, shadow_thread, team_threads, conversation_history,
                   threads, frame, stream, calls, resets, fresh, reset_result,
                   parseVars>>

\* variant: the thread is kept
KeepThread(heap, ag, old) == [threads |-> heap, thread |-> old]

\* WorkflowBase.reset(): self.thread = self.agent.get_new_thread()
NewThread(heap, ag, old) == [threads |-> Mint(heap, ag), thread |-> Len(heap) + 1]

\* variant: the reset creates the agent anew and mints the thread from it
BaseResetNewAgent ==
    /\ kind \in {"SingleAssistant", "SingleAssistantRAG"}
    /\ calls + resets < MaxOps
    /\ resets' = resets + 1
    /\ agent' = Handle(agent.id + Len(threads) + ShadowId, agent.name)
    /\ threads' = Mint(threads, agent')
    /\ thread' = Len(threads) + 1
    /\ fresh' = (pc = "idle")
    /\ reset_result' = "returned"
    /\ UNCHANGED <<kind, shadow_agent, team, max_rounds, max_turns, selector_func,
                   rag_retriever, shadow_thread, team_threads,
                   conversation_history, pc, frame, log, result, stream, calls,
                   parseVars>>

BaseReset ==
    /\ kind \in {"SingleAssistant", "SingleAssistantRAG"}
    /\ calls + resets < MaxOps
    /\ resets' = resets + 1
    /\ LET r == NewThread(threads, agent, thread)
       IN threads' = r.threads /\ thread' = r.thread
    /\ fresh' = (pc = "idle")
    /\ reset_result' = "returned"
    /\ UNCHANGED <<kind, agent, shadow_agent, team, max_rounds, max_turns, selector_func,
                   rag_retriever,
                   shadow_thread, team_threads, conversation_history, pc, frame,
                   log, result, stream, calls, parseVars>>

\* WorkflowBase.reset() when get_new_thread() raises: nothing is assigned
BaseResetFails ==
    /\ kind \in {"SingleAssistant", "SingleAssistantRAG"}
    /\ calls + resets < MaxOps
    /\ resets' = resets + 1
    /\ fresh' = FALSE
    /\ reset_result' = "raised"
    /\ UNCHANGED <<kind, agent, shadow_agent, team, max_rounds, max_turns, selector_func,
                   rag_retriever,
                   thread, shadow_thread, team_threads, conversation_history,
                   threads, pc, frame, log, result, stream, calls, parseVars>>

SingleNext ==
    \/ \E message \in Messages, streaming \in BOOLEAN : SingleChat(message, streaming)
    \/ \E reply \in Replies : RunResponse(reply)
    \/ \E err \in BackendErrors : RunFails(err)
    \/ \E reply \in Replies : StreamIterated(reply)
    \/ \E err \in BackendErrors : StreamFails(err)
    \/ BaseReset
    \/ BaseResetFails

SpecSingle == SingleInit /\ [][SingleNext]_vars

\* ------------------------------------------------------ SingleAssistantRAG
\* SingleAssistantRAG.__init__: self.rag_retriever is assigned only by
\* _initialize_vector_store, which runs only when docs_path is given
RagInit ==
    /\ Constructed("SingleAssistantRAG")
    /\ agent = Handle(PrimaryId, PrimaryName)
    /\ shadow_agent = NoHandle
    /\ team = <<>>
    /\ threads = Mint(<<>>, agent)
    /\ thread = 1
    /\ shadow_thread = 0
    /\ team_threads = EmptyMap
    /\ max_rounds = 10
    /\ max_turns = 0
    /\ selector_func = "none"
    /\ rag_retriever \in {"unset", "none", "ok"}
    /\ conversation_history = <<>>

\* "\n\n".join(context_docs) if context_docs else ""
RECURSIVE Join(_)
Join(docs) ==
    IF docs = <<>> THEN <<>>
    ELSE IF Len(docs) = 1 THEN docs[1]
    ELSE docs[1] \o <<"\n", "\n">> \o Join(Tail(docs))

\* the f-string of lines 197-201
Enhanced(docs, message) ==
    Concat(<< <<"Context from documents:", "\n">>, Join(docs),
              <<"\n", "\n", "User query: ">>, message, <<"\n">> >>)

\* variant: the message is wrapped in the context template whatever the
\* retriever is
RagChatAlwaysEnhances(message, streaming, docs) ==
    /\ kind = "SingleAssistantRAG"
    /\ pc = "idle"
    /\ calls + resets < MaxOps
    /\ rag_retriever # "unset"
    /\ rag_retriever = "none" => docs = <<>>
    /\ Run(message, Enhanced(docs, message), streaming)

\* SingleAssistantRAG.chat(message, stream) with a retriever that returns docs
RagChat(message, streaming, docs) ==
    /\ kind = "SingleAssistantRAG"
    /\ pc = "idle"
    /\ calls + resets < MaxOps
    /\ rag_retriever # "unset"
    /\ rag_retriever = "none" => docs = <<>>
    /\ Run(message,
           IF rag_retriever = "ok" THEN Enhanced(docs, message) ELSE message,
           streaming)

\* chat raises before any exchange: line 192 reads an attribute that was
\* never assigned (AttributeError), or the retriever call of line 193 raises
RagChatRaises(message, err) ==
    /\ kind = "SingleAssistantRAG"
    /\ pc = "idle"
    /\ calls + resets < MaxOps
    /\ \/ rag_retriever = "unset" /\ err = <<"AttributeError">>
       \/ rag_retriever = "ok" /\ err = <<"RetrievalError">>
    /\ calls' = calls + 1
    /\ frame' = [NoFrame EXCEPT !.message = message, !.clean = fresh]
    /\ fresh' = FALSE
    /\ log' = <<>>
    /\ result' = Raised(err)
    /\ UNCHANGED <<kind, agent, shadow_agent, team, max_rounds, max_turns, selector_func,
                   rag_retriever,
                   thread, shadow_thread, team_threads, conversation_history,
                   threads, pc, stream, resets, reset_result, parseVars>>

RagNext ==
    \/ \E message \in Messages, streaming \in BOOLEAN, docs \in DocLists :
          RagChat(message, streaming, docs)
    \/ \E message \in Messages, err \in {<<"AttributeError">>, <<"RetrievalError">>} :
          RagChatRaises(message, err)
    \/ \E reply \in Replies : RunResponse(reply)
    \/ \E err \in BackendErrors : RunFails(err)
    \/ \E reply \in Replies : StreamIterated(reply)
    \/ \E err \in BackendErrors : StreamFails(err)
    \/ BaseReset
    \/ BaseResetFails

SpecRag == RagInit /\ [][RagNext]_vars

\* --------------------------------------------------- SingleAssistantShadow
\* SingleAssistantShadow.__init__: the primary agent and thread, then the
\* shadow agent (name f"{self.agent.name}_Shadow") and its thread
ShadowInit ==
    /\ Constructed("SingleAssistantShadow")
    /\ agent = Handle(PrimaryId, PrimaryName)
    /\ shadow_agent = Handle(ShadowId, PrimaryName \o ShadowSuffix)
    /\ team = <<>>
    /\ threads = Mint(Mint(<<>>, agent), shadow_agent)
    /\ thread = 1
    /\ shadow_thread = 2
    /\ team_threads = EmptyMap
    /\ max_rounds = 10
    /\ max_turns = 0
    /\ selector_func = "none"
    /\ rag_retriever = "unset"
    /\ conversation_history = <<>>

\* f"Create an execution plan for: {message}"
PlanRequest(message) == <<"Create an execution plan for: ">> \o message

\* variant: the plan is left out of the message
ExecutionMessageWithoutPlan(plan, message) ==
    Concat(<< <<"\n", "Execute the following plan:", "\n", "\n">>,
              <<"\n", "\n", "Original request: ">>, message, <<"\n">> >>)

\* the f-string of lines 282-288
ExecutionMessage(plan, message) ==
    Concat(<< <<"\n", "Execute the following plan:", "\n", "\n">>, plan,
              <<"\n", "\n", "Original request: ">>, message, <<"\n">> >>)

\* variant: the planning and the execution exchange are started together
ShadowChatConcurrent(message, streaming) ==
    /\ kind = "SingleAssistantShadow"
    /\ pc = "idle"
    /\ calls + resets < MaxOps
    /\ calls' = calls + 1
    /\ frame' = [NoFrame EXCEPT !.message = message, !.stream = streaming,
                                !.clean = fresh]
    /\ log' = << Exchange(threads, shadow_agent, shadow_thread,
                          PlanRequest(message), "plan", calls + 1),
                 Exchange(threads, agent, thread, message, "execute",
                          calls + 1) >>
    /\ result' = NoResult
    /\ fresh' = FALSE
    /\ pc' = "plan_run"
    /\ UNCHANGED <<kind, agent, shadow_agent, team, max_rounds, max_turns,
                   selector_func, rag_retriever, thread, shadow_thread,
                   team_threads, conversation_history, threads, stream, resets,
                   reset_result, parseVars>>

\* chat(message, stream) is called: lines 274-277 start the planning exchange
ShadowChat(message, streaming) ==
    /\ kind = "SingleAssistantShadow"
    /\ pc = "idle"
    /\ calls + resets < MaxOps
    /\ calls' = calls + 1
    /\ frame' = [NoFrame EXCEPT !.message = message, !.stream = streaming,
                                !.clean = fresh]
    /\ log' = << Exchange(threads, shadow_agent, shadow_thread,
                          PlanRequest(message), "plan", calls + 1) >>
    /\ result' = NoResult
    /\ fresh' = FALSE
    /\ pc' = "plan_run"
    /\ UNCHANGED <<kind, agent, shadow_agent, team, max_rounds, max_turns, selector_func,
                   rag_retriever,
                   thread, shadow_thread, team_threads, conversation_history,
                   threads, stream, resets, reset_result, parseVars>>

\* line 274 returns plan_response; lines 279-293: the execution message is
\* built and either the stream is returned or the execution exchange started
PlanResponse(reply) ==
    /\ pc = "plan_run"
    /\ LET heap == Deliver(threads, Last(log))
           execution_message == ExecutionMessage(reply, frame.message)
       IN /\ threads' = heap
          /\ IF frame.stream
             THEN /\ stream' = NewStream(agent, thread, execution_message,
                                         "execute", calls)
                  /\ log' = Answered(log, Ok(reply))
                  /\ result' = StreamResult
                  /\ pc' = "idle"
             ELSE /\ log' = Append(Answered(log, Ok(reply)),
                                   Exchange(heap, agent, thread,
                                            execution_message, "execute", calls))
                  /\ pc' = "execute_run"
                  /\ UNCHANGED <<stream, result>>
    /\ UNCHANGED <<kind, agent, shadow_agent, team, max_rounds, max_turns, selector_func,
                   rag_retriever,
                   thread, shadow_thread, team_threads, conversation_history,
                   frame, calls, resets, fresh, reset_result, parseVars>>

\* line 293 returns the response; line 294 returns it
ExecutionResponse(reply) ==
    /\ pc = "execute_run"
    /\ threads' = Deliver(threads, Last(log))
    /\ log' = Answered(log, Ok(reply))
    /\ result' = Returned(reply)
    /\ pc' = "idle"
    /\ UNCHANGED <<kind, agent, shadow_agent, team, max_rounds, max_turns, selector_func,
                   rag_retriever,
                   thread, shadow_thread, team_threads, conversation_history,
                   frame, stream, calls, resets, fresh, reset_result, parseVars>>

\* variant: a failed planning exchange falls back to executing the raw message
ShadowExchangeFallsBack(err) ==
    /\ pc = "plan_run"
    /\ log' = Append(Answered(log, Failed(err)),
                     Exchange(threads, agent, thread, frame.message, "execute",
                              calls))
    /\ pc' = "execute_run"
    /\ UNCHANGED <<kind, agent, shadow_agent, team, max_rounds, max_turns, selector_func,
                   rag_retriever,
                   thread, shadow_thread, team_threads, conversation_history,
                   threads, frame, result, stream, calls, resets, fresh,
                   reset_result, parseVars>>

\* the awaited exchange of line 274 or 293 raises: nothing catches it
ShadowExchangeFails(err) ==
    /\ pc \in {"plan_run", "execute_run"}
    /\ log' = Answered(log, Failed(err))
    /\ result' = Raised(err)
    /\ pc' = "idle"
    /\ UNCHANGED <<kind, agent, shadow_agent, team, max_rounds, max_turns, selector_func,
                   rag_retriever,
                   thread, shadow_thread, team_threads, conversation_history,
                   threads, frame, stream, calls, resets, fresh, reset_result,
                   parseVars>>

\* SingleAssistantShadow.reset(): super().reset(), then the shadow thread
ShadowReset ==
    /\ kind = "SingleAssistantShadow"
    /\ calls + resets < MaxOps
    /\ resets' = resets + 1
    /\ LET r == NewThread(threads, agent, thread)
       IN /\ thread' = r.thread
          /\ threads' = Mint(r.threads, shadow_agent)
          /\ shadow_thread' = Len(r.threads) + 1
    /\ fresh' = (pc = "idle")
    /\ reset_result' = "returned"
    /\ UNCHANGED <<kind, agent, shadow_agent, team, max_rounds, max_turns, selector_func,
                   rag_retriever,
                   team_threads, conversation_history, pc, frame, log, result,
                   stream, calls, parseVars>>

\* reset() when a get_new_thread() of it raises: at line 298 nothing has
\* changed yet; at line 299 self.thread is already replaced and
\* self.shadow_thread is not assigned
ShadowResetFails(at_base) ==
    /\ kind = "SingleAssistantShadow"
    /\ calls + resets < MaxOps
    /\ resets' = resets + 1
    /\ IF at_base
       THEN UNCHANGED <<threads, thread>>
       ELSE LET r == NewThread(threads, agent, thread)
            IN threads' = r.threads /\ thread' = r.thread
    /\ fresh' = FALSE
    /\ reset_result' = "raised"
    /\ UNCHANGED <<kind, agent, shadow_agent, team, max_rounds, max_turns, selector_func,
                   rag_retriever,
                   shadow_thread, team_threads, conversation_history, pc, frame,
                   log, result, stream, calls, parseVars>>

ShadowNext ==
    \/ \E message \in Messages, streaming \in BOOLEAN : ShadowChat(message, streaming)
    \/ \E reply \in Replies : PlanResponse(reply)
    \/ \E reply \in Replies : ExecutionResponse(reply)
    \/ \E err \in BackendErrors : ShadowExchangeFails(err)
    \/ \E reply \in Replies : StreamIterated(reply)
    \/ \E err \in BackendErrors : StreamFails(err)
    \/ ShadowReset
    \/ \E at_base \in BOOLEAN : ShadowResetFails(at_base)

SpecShadow == ShadowInit /\ [][ShadowNext]_vars

\* ---------------------------------------------------------- MultiAssistant
\* max_rounds values a MultiAssistant is constructed with
MaxRounds == 2

GroupReplies == { <<"r">>, <<"TERMINATE">> }

\* MultiAssistant.__init__: no super().__init__(), so no self.agent and no
\* self.thread; the roster, max_rounds and an empty conversation_history
MultiInit ==
    /\ Constructed("MultiAssistant")
    /\ agent = NoHandle
    /\ shadow_agent = NoHandle
    /\ \E cfg \in Rosters : team = TeamOf(cfg)
    /\ threads = <<>>
    /\ thread = 0
    /\ shadow_thread = 0
    /\ team_threads = EmptyMap
    /\ max_rounds \in 1..MaxRounds
    /\ max_turns = 0
    /\ selector_func \in {"none", "custom"}
    /\ rag_retriever = "unset"
    /\ conversation_history = <<>>

\* the transcript of the group session built by this chat call, before the
\* task is added: one response per completed round
SessionTurns(l, call) ==
    [i \in 1..Len(l) |-> [call |-> call, step |-> "round", role |-> "assistant"]]

\* variant: no response ends the session
TerminatesNever(reply) == FALSE

\* the response holds the termination token
Terminates(reply) == \E i \in 1..Len(reply) : reply[i] = "TERMINATE"

\* the aggregated result of the session
RECURSIVE Aggregate(_)
Aggregate(l) ==
    IF l = <<>> THEN <<>> ELSE Head(l).reply.text \o Aggregate(Tail(l))

\* variant: the session is given one round more than configured
RoundBudgetOffByOne(mr) == mr + 1

\* GroupChatBuilder().participants(self.agents).with_max_rounds(self.max_rounds):
\* the round budget of the session is the configured max_rounds
RoundBudget(mr) == mr

\* chat(message): lines 376-390 build a new group session and run it
MultiChat(message) ==
    /\ kind = "MultiAssistant"
    /\ pc = "idle"
    /\ calls + resets < MaxOps
    /\ calls' = calls + 1
    /\ frame' = [NoFrame EXCEPT !.message = message, !.clean = fresh]
    /\ log' = <<>>
    /\ result' = NoResult
    /\ fresh' = FALSE
    /\ pc' = "group_select"
    /\ UNCHANGED <<kind, agent, shadow_agent, team, max_rounds, max_turns, selector_func,
                   rag_retriever,
                   thread, shadow_thread, team_threads, conversation_history,
                   threads, stream, resets, reset_result, parseVars>>

\* one round of the session: the selector picks roster entry i, which is
\* given the session transcript
GroupSelect(i) ==
    /\ pc = "group_select"
    /\ frame' = [frame EXCEPT !.round = @ + 1]
    /\ log' = Append(log,
                     [agent |-> team[i].id, thread |-> 0, msg |-> frame.message,
                      step |-> "round", call |-> calls,
                      prior |-> SessionTurns(log, calls), kwargs |-> {},
                      reply |-> Pending])
    /\ pc' = "group_run"
    /\ UNCHANGED <<kind, agent, shadow_agent, team, max_rounds, max_turns, selector_func,
                   rag_retriever,
                   thread, shadow_thread, team_threads, conversation_history,
                   threads, result, stream, calls, resets, fresh, reset_result,
                   parseVars>>

\* the selected agent responds: the session ends on the termination token
\* or when max_rounds rounds are done
GroupResponse(reply) ==
    /\ pc = "group_run"
    /\ log' = Answered(log, Ok(reply))
    /\ IF Terminates(reply) \/ frame.round >= RoundBudget(max_rounds)
       THEN /\ result' = Returned(Aggregate(Answered(log, Ok(reply))))
            /\ pc' = "idle"
       ELSE /\ pc' = "group_select"
            /\ UNCHANGED result
    /\ UNCHANGED <<kind, agent, shadow_agent, team, max_rounds, max_turns, selector_func,
                   rag_retriever,
                   thread, shadow_thread, team_threads, conversation_history,
                   threads, frame, stream, calls, resets, fresh, reset_result,
                   parseVars>>

\* an exchange of the session raises: line 390 raises it
GroupFails(err) ==
    /\ pc = "group_run"
    /\ log' = Answered(log, Failed(err))
    /\ result' = Raised(err)
    /\ pc' = "idle"
    /\ UNCHANGED <<kind, agent, shadow_agent, team, max_rounds, max_turns, selector_func,
                   rag_retriever,
                   thread, shadow_thread, team_threads, conversation_history,
                   threads, frame, stream, calls, resets, fresh, reset_result,
                   parseVars>>

\* variant: the reset also drops the custom selector
MultiResetDropsSelector ==
    /\ kind = "MultiAssistant"
    /\ calls + resets < MaxOps
    /\ resets' = resets + 1
    /\ conversation_history' = <<>>
    /\ selector_func' = "none"
    /\ fresh' = (pc = "idle")
    /\ reset_result' = "returned"
    /\ UNCHANGED <<kind, agent, shadow_agent, team, max_rounds, max_turns, rag_retriever,
                   thread, shadow_thread, team_threads, threads, pc, frame, log,
                   result, stream, calls, parseVars>>

\* MultiAssistant.reset(): self.conversation_history = []
MultiReset ==
    /\ kind = "MultiAssistant"
    /\ calls + resets < MaxOps
    /\ resets' = resets + 1
    /\ conversation_history' = <<>>
    /\ fresh' = (pc = "idle")
    /\ reset_result' = "returned"
    /\ UNCHANGED <<kind, agent, shadow_agent, team, max_rounds, max_turns, selector_func,
                   rag_retriever,
                   thread, shadow_thread, team_threads, threads, pc, frame, log,
                   result, stream, calls, parseVars>>

MultiNext ==
    \/ \E message \in Messages : MultiChat(message)
    \/ \E i \in DOMAIN team : GroupSelect(i)
    \/ \E reply \in GroupReplies : GroupResponse(reply)
    \/ \E err \in BackendErrors : GroupFails(err)
    \/ MultiReset

SpecMulti == MultiInit /\ [][MultiNext]_vars

\* the session goes on selecting while it has not ended, and the backend
\* answers every exchange it is given
SpecMultiFair ==
    /\ MultiInit
    /\ [][MultiNext]_vars
    /\ WF_vars(\E i \in DOMAIN team : GroupSelect(i))
    /\ WF_vars(\E reply \in GroupReplies : GroupResponse(reply))

\* ------------------------------------------------------- every workflow
Init == SingleInit \/ RagInit \/ ShadowInit \/ MultiInit \/ LeaderInit

Next == SingleNext \/ RagNext \/ ShadowNext \/ MultiNext \/ LeaderNext

Spec == Init /\ [][Next]_vars

\* ----------------------------------------------------------------- parsing
ParseInit ==
    /\ text \in Texts
    /\ parsed = {}
    /\ request = NoRequest
    /\ outcome = {}
    /\ response = NoResponse
    /\ extracted = {}
    /\ kind = "parser"
    /\ agent = NoHandle
    /\ shadow_agent = NoHandle
    /\ team = <<>>
    /\ max_rounds = 0
    /\ max_turns = 0
    /\ selector_func = "none"
    /\ rag_retriever = "unset"
    /\ thread = 0
    /\ shadow_thread = 0
    /\ team_threads = EmptyMap
    /\ conversation_history = <<>>
    /\ threads = <<>>
    /\ pc = "idle"
    /\ frame = NoFrame
    /\ log = <<>>
    /\ result = NoResult
    /\ stream = NoStream
    /\ calls = 0
    /\ resets = 0
    /\ fresh = FALSE
    /\ reset_result = "none"

\* lines 465-471 applied to `text`
Parse ==
    /\ parsed = {}
    /\ parsed' = {ParseDelegation(text)}
    /\ UNCHANGED <<text, request, outcome, response, extracted>>
    /\ UNCHANGED flowVars

ParseNext == Parse

SpecParse == ParseInit /\ [][ParseNext]_vars

\* ------------------------------------------------------------ create_agent
\* roster entries of one constructor call
MaxTeam == 2

\* AGENT_CONFIGS: the registered names, in the order of the library, and the
\* toolkits each configuration references
AgentNames == << <<"a">>, <<"b">>, <<"L">>, <<"P">> >>
Registered == {AgentNames[i] : i \in DOMAIN AgentNames}
ToolkitsOf(name) ==
    IF name = <<"a">> THEN <<"market_data">>
    ELSE IF name = <<"L">> THEN <<"sec_reports", "charting", "reporting", "analysis">>
    ELSE <<>>

\* create_default_toolkit_registry(): the toolkit names it maps
DefaultRegistry ==
    {"market_data", "sec_reports", "charting", "reporting", "analysis", "coding"}

\* toolkit_registry arguments: None, or the set of names a dict maps
NoRegistry == [given |-> FALSE, names |-> {}]
Registries ==
    { NoRegistry,
      [given |-> TRUE, names |-> {}],
      [given |-> TRUE, names |-> {"market_data"}],
      [given |-> TRUE, names |-> {"sec_reports", "charting", "reporting"}] }

\* agent_config arguments: a name, or a mapping with or without "name"
Named(n) == [type |-> "str", has_name |-> TRUE, name |-> n]
Mapping(n) == [type |-> "dict", has_name |-> TRUE, name |-> n]
MappingWithoutName == [type |-> "dict", has_name |-> FALSE, name |-> <<>>]
Configs ==
    { Named(<<"a">>), Named(<<"L">>), Named(<<"c">>),
      Mapping(<<"a">>), Mapping(<<"c">>), MappingWithoutName }
TeamConfigs == UNION {[1..n -> Configs] : n \in 0..MaxTeam}

\* variant: a mapping without a registered name falls back to the first
\* registered agent
ResolveNameLenient(cfg, default) ==
    IF cfg.type = "str" THEN cfg.name
    ELSE IF cfg.has_name /\ cfg.name \in Registered THEN cfg.name
    ELSE AgentNames[1]

\* agent_config if it is a str, else agent_config.get("name", default)
ResolveName(cfg, default) ==
    IF cfg.type = "str" THEN cfg.name
    ELSE IF cfg.has_name THEN cfg.name
    ELSE default

\* lines 518-525: the references found in the registry contribute their
\* tools, in order; with a falsy registry nothing is resolved
RECURSIVE ResolveTools(_, _)
ResolveTools(refs, registry) ==
    IF refs = <<>> \/ ~registry.given \/ registry.names = {} THEN <<>>
    ELSE IF Head(refs) \in registry.names
         THEN <<Head(refs)>> \o ResolveTools(Tail(refs), registry)
         ELSE ResolveTools(Tail(refs), registry)

\* raise ValueError(f"Agent '{agent_name}' not found in library. "
\*                  f"Available agents: {list(AGENT_CONFIGS.keys())}")
NotFound(agent_name) ==
    [status |-> "raised", error |-> "ValueError", agent_name |-> agent_name,
     available |-> AgentNames, agents |-> <<>>]

\* create_agent(agent_name, chat_client, toolkit_registry)
CreateAgent(agent_name, registry) ==
    IF agent_name \notin Registered THEN NotFound(agent_name)
    ELSE [status |-> "created", error |-> "", agent_name |-> agent_name,
          available |-> <<>>,
          agents |-> << [name |-> agent_name,
                         tools |-> ResolveTools(ToolkitsOf(agent_name), registry)] >>]

\* the registry a workflow constructor hands to create_agent: the default one
\* when it was given None
WorkflowRegistry(registry) ==
    IF registry.given THEN registry ELSE [given |-> TRUE, names |-> DefaultRegistry]

\* the agents of names[i..] created in order, up to the first failure
RECURSIVE CreateAll(_, _, _)
CreateAll(names, registry, done) ==
    IF names = <<>>
    THEN [status |-> "constructed", error |-> "", agent_name |-> <<>>,
          available |-> <<>>, agents |-> done]
    ELSE LET made == CreateAgent(Head(names), registry)
         IN IF made.status = "raised" THEN made
            ELSE CreateAll(Tail(names), registry, done \o made.agents)

\* the names a constructor call creates agents for, in the order of the code
CreatedNames(req) ==
    LET roster(default) ==
            [i \in 1..Len(req.team) |-> ResolveName(req.team[i], default)]
    IN IF req.call = "create_agent" THEN << req.primary.name >>
       ELSE IF req.call = "MultiAssistant" THEN roster(<<"CustomAgent">>)
       ELSE IF req.call = "MultiAssistantWithLeader"
            THEN << ResolveName(req.primary, <<"CustomAgent">>) >>
                 \o roster(<<"TeamMember">>)
       ELSE << ResolveName(req.primary, <<"CustomAgent">>) >>

\* what the call does: the agents it creates, or the error it raises
Construct(req) ==
    IF req.call = "create_agent"
    THEN CreateAgent(req.primary.name, req.registry)
    ELSE IF req.call = "MultiAssistantWithLeader"
    THEN \* the leader is created with self.toolkit_registry's value, the team
         \* with the toolkit_registry argument as it was given (lines 428-441)
         LET names == CreatedNames(req)
             lead == CreateAll(<<Head(names)>>, WorkflowRegistry(req.registry), <<>>)
         IN IF lead.status = "raised" THEN lead
            ELSE CreateAll(Tail(names), req.registry, lead.agents)
    ELSE CreateAll(CreatedNames(req), WorkflowRegistry(req.registry), <<>>)

Requests ==
    {[call |-> "create_agent", primary |-> Named(n), team |-> <<>>, registry |-> r] :
        n \in {<<"a">>, <<"L">>, <<"c">>}, r \in Registries}
    \cup {[call |-> k, primary |-> c, team |-> <<>>, registry |-> r] :
            k \in {"SingleAssistant", "SingleAssistantRAG", "SingleAssistantShadow"},
            c \in Configs, r \in Registries}
    \cup {[call |-> "MultiAssistant", primary |-> MappingWithoutName, team |-> t,
           registry |-> r] : t \in TeamConfigs, r \in Registries}
    \cup {[call |-> "MultiAssistantWithLeader", primary |-> c, team |-> t,
           registry |-> r] : c \in Configs, t \in TeamConfigs, r \in Registries}

CreateInit ==
    /\ request \in Requests
    /\ outcome = {}
    /\ response = NoResponse
    /\ extracted = {}
    /\ text = <<>>
    /\ parsed = {}
    /\ kind = "constructor"
    /\ agent = NoHandle
    /\ shadow_agent = NoHandle
    /\ team = <<>>
    /\ max_rounds = 0
    /\ max_turns = 0
    /\ selector_func = "none"
    /\ rag_retriever = "unset"
    /\ thread = 0
    /\ shadow_thread = 0
    /\ team_threads = EmptyMap
    /\ conversation_history = <<>>
    /\ threads = <<>>
    /\ pc = "idle"
    /\ frame = NoFrame
    /\ log = <<>>
    /\ result = NoResult
    /\ stream = NoStream
    /\ calls = 0
    /\ resets = 0
    /\ fresh = FALSE
    /\ reset_result = "none"

\* the constructor (or create_agent) runs
Create ==
    /\ kind = "constructor"
    /\ outcome = {}
    /\ outcome' = {Construct(request)}
    /\ UNCHANGED <<text, parsed, request, response, extracted>>
    /\ UNCHANGED flowVars

CreateNext == Create

SpecCreate == CreateInit /\ [][CreateNext]_vars

\* --------------------------------------------------- extract_response_text
MaxEvents == 2
MaxItems == 2

\* a Python value with its type and its str() rendering, a sequence of pieces
StrValue(s) == [type |-> "str", str |-> s]
NoneValue == [type |-> "NoneType", str |-> <<"None">>]
IntValue == [type |-> "int", str |-> <<"7">>]
Strings == {<<>>, <<"t">>}
Values == {StrValue(s) : s \in Strings} \cup {NoneValue, IntValue}

\* an attribute or key that may be missing: <<>> when missing, <<v>> when set
Optional(S) == {<<>>} \cup {<<v>> : v \in S}

SeqsUpTo(S, n) == UNION {[1..k -> S] : k \in 0..n}

\* the items of a `content` list: an object with a text attribute, or a plain
\* value (a str, or something that is neither)
Items ==
    {[text |-> <<v>>, value |-> NoneValue] : v \in {StrValue(<<"t">>), NoneValue}}
        \cup {[text |-> <<>>, value |-> v] : v \in {StrValue(<<"t">>), IntValue}}

\* what event.data.content can be: a str, a list of items, or anything else
Contents ==
    {[type |-> v.type, str |-> v.str, items |-> <<>>] : v \in Values}
        \cup {[type |-> "list", str |-> <<>>, items |-> is] : is \in SeqsUpTo(Items, MaxItems)}

\* event.data: an object with or without a content attribute
Datas == [content : Optional(Contents)]

EventClasses == {"WorkflowOutputEvent", "ExecutorCompletedEvent"}

\* 'WorkflowOutputEvent' in event.__class__.__name__ (line 29)
IsOutputEvent(event) == event.cls = "WorkflowOutputEvent"

Events ==
    {[cls |-> "WorkflowOutputEvent", data |-> d] : d \in Optional(Datas)}
        \cup {[cls |-> "ExecutorCompletedEvent", data |-> <<>>]}

NoKeys == [text |-> <<>>, content |-> <<>>]

\* the shapes extract_response_text can be handed: any base type may carry a
\* text attribute (a list or dict subclass can)
ObjectResponse(t) ==
    [base |-> "object", text |-> t, events |-> <<>>, keys |-> NoKeys, value |-> NoneValue]
ListResponse(t, es) ==
    [base |-> "list", text |-> t, events |-> es, keys |-> NoKeys, value |-> NoneValue]
DictResponse(t, ks) ==
    [base |-> "dict", text |-> t, events |-> <<>>, keys |-> ks, value |-> NoneValue]
ValueResponse(v) ==
    [base |-> "value", text |-> <<>>, events |-> <<>>, keys |-> NoKeys, value |-> v]

Responses ==
    {ObjectResponse(t) : t \in Optional(Values)}
        \cup {ListResponse(<<>>, es) : es \in SeqsUpTo(Events, MaxEvents)}
        \cup {ListResponse(<<v>>, <<>>) : v \in Values}
        \cup {DictResponse(<<>>, ks) : ks \in [text : Optional(Values), content : Optional(Values)]}
        \cup {DictResponse(<<v>>, NoKeys) : v \in Values}
        \cup {ValueResponse(v) : v \in Values}

\* how the call ends: with a value, or with an exception
Gives(v) == [status |-> "returned", value |-> v]
Throws(e) == [status |-> "raised", value |-> [type |-> e, str |-> <<>>]]

\* str(x) of a container or object: its repr
Repr(x) == StrValue(<<"<", x.base, ">">>)

RECURSIVE ItemParts(_)
\* lines 36-40: item.text of the items that have one, and the items that are str
ItemParts(items) ==
    IF items = <<>> THEN <<>>
    ELSE LET item == Head(items)
             part == IF item.text # <<>> THEN <<item.text[1]>>
                     ELSE IF item.value.type = "str" THEN <<item.value>>
                     ELSE <<>>
         IN  part \o ItemParts(Tail(items))

\* lines 33-40
ContentParts(content) ==
    IF content.type = "str" THEN <<StrValue(content.str)>>
    ELSE IF content.type = "list" THEN ItemParts(content.items)
    ELSE <<>>

RECURSIVE EventParts(_)
\* lines 27-40: the text parts of the output events, in order
EventParts(events) ==
    IF events = <<>> THEN <<>>
    ELSE LET event == Head(events)
             part == IF /\ IsOutputEvent(event)
                        /\ event.data # <<>>
                        /\ event.data[1].content # <<>>
                     THEN ContentParts(event.data[1].content[1])
                     ELSE <<>>
         IN  part \o EventParts(Tail(events))

RECURSIVE JoinStr(_, _)
\* sep.join(parts) for parts that are all str
JoinStr(parts, sep) ==
    IF parts = <<>> THEN <<>>
    ELSE IF Len(parts) = 1 THEN parts[1]
    ELSE parts[1] \o sep \o JoinStr(Tail(parts), sep)

\* str.join: TypeError when an element is not a str
StrJoin(parts, sep) ==
    IF \A i \in 1..Len(parts) : parts[i].type = "str"
    THEN Gives(StrValue(JoinStr([i \in 1..Len(parts) |-> parts[i].str], sep)))
    ELSE Throws("TypeError")

\* lines 46-47
EventSummary(events) ==
    StrValue(<<"Workflow completed with events: ">>
                 \o JoinStr([i \in 1..Len(events) |-> <<events[i].cls>>], <<", ">>))

\* lines 50-55
ExtractDict(keys) ==
    IF keys.text # <<>> THEN Gives(keys.text[1])
    ELSE IF keys.content # <<>> THEN Gives(StrValue(keys.content[1].str))
    ELSE Gives(StrValue(<<"<", "dict", ">">>))

\* lines 10-58; line 22 gives the text attribute back as it is
extract_response_text(r) ==
    IF r.text # <<>> THEN Gives(r.text[1])
    ELSE IF r.base = "list" THEN
        IF EventParts(r.events) # <<>> THEN StrJoin(EventParts(r.events), <<"\n\n">>)
        ELSE Gives(EventSummary(r.events))
    ELSE IF r.base = "dict" THEN ExtractDict(r.keys)
    ELSE IF r.base = "value" THEN Gives(StrValue(r.value.str))
    ELSE Gives(Repr(r))

ExtractInit ==
    /\ response \in Responses
    /\ extracted = {}
    /\ text = <<>>
    /\ parsed = {}
    /\ request = NoRequest
    /\ outcome = {}
    /\ kind = "extractor"
    /\ agent = NoHandle
    /\ shadow_agent = NoHandle
    /\ team = <<>>
    /\ max_rounds = 0
    /\ max_turns = 0
    /\ selector_func = "none"
    /\ rag_retriever = "unset"
    /\ thread = 0
    /\ shadow_thread = 0
    /\ team_threads = EmptyMap
    /\ conversation_history = <<>>
    /\ threads = <<>>
    /\ pc = "idle"
    /\ frame = NoFrame
    /\ log = <<>>
    /\ result = NoResult
    /\ stream = NoStream
    /\ calls = 0
    /\ resets = 0
    /\ fresh = FALSE
    /\ reset_result = "none"

\* extract_response_text(response) is called
Extract ==
    /\ kind = "extractor"
    /\ extracted = {}
    /\ extracted' = {extract_response_text(response)}
    /\ UNCHANGED <<text, parsed, request, outcome, response>>
    /\ UNCHANGED flowVars

ExtractNext == Extract

SpecExtract == ExtractInit /\ [][ExtractNext]_vars

\* ================================================================ claims
IsLeader == kind = "MultiAssistantWithLeader"
RosterNames == {team[i].name : i \in DOMAIN team}
\* the name of the roster entry with handle identity a
NameOfAgent(a) == (CHOOSE i \in DOMAIN team : team[i].id = a)
CallReturned == pc = "idle" /\ result.status = "returned"
MemberExchanges == {i \in 1..Len(log) : log[i].step = "member"}

\* C1: a MultiAssistantWithLeader.chat call that returns has performed
\* exactly 1 backend exchange when the leader's first response holds no
\* marker naming a roster member and exactly 3 when it holds one; no call
\* ever performs more than 3, whatever the second leader response holds.
C1_SingleHopBound ==
    IsLeader =>
        /\ Len(log) <= 3
        /\ CallReturned =>
              LET d == ParseDelegation(log[1].reply.text)
              IN Len(log) = IF d.matched /\ d.team_member_name \in RosterNames
                            THEN 3 ELSE 1

\* a delegating call returned a second leader response that itself holds a
\* valid marker
C1_Witness ==
    /\ IsLeader /\ CallReturned /\ Len(log) = 3
    /\ LET d == ParseDelegation(log[3].reply.text)
       IN d.matched /\ d.team_member_name \in RosterNames

\* C2: in a delegating call the exchanges are leader(message),
\* member(instruction), leader(feedback), each started only after the one
\* before it was answered; the feedback is "Result from <AgentName>: <member
\* response text>" and chat returns the leader's second response unchanged.
C2_DelegationOrder ==
    IsLeader =>
        /\ Len(log) >= 1 =>
              /\ log[1].step = "leader"
              /\ log[1].agent = agent.id
              /\ log[1].msg = frame.message
        /\ Len(log) >= 2 =>
              /\ log[1].reply.status = "ok"
              /\ log[2].step = "member"
              /\ \E i \in DOMAIN team : team[i].id = log[2].agent
              /\ log[2].msg = ParseDelegation(log[1].reply.text).instruction
        /\ Len(log) >= 3 =>
              /\ log[2].reply.status = "ok"
              /\ log[3].step = "feedback"
              /\ log[3].agent = agent.id
              /\ log[3].msg =
                    <<"Result from ">>
                    \o ParseDelegation(log[1].reply.text).team_member_name
                    \o <<": ">> \o log[2].reply.text
        /\ (Len(log) = 3 /\ CallReturned) => result.text = log[3].reply.text
        /\ \A i \in 1..(Len(log) - 1) : log[i].reply.status # "pending"

C2_Witness ==
    /\ IsLeader /\ CallReturned /\ Len(log) = 3
    /\ log[2].msg = <<"x", " ", "y">>
    /\ log[3].msg = <<"Result from ", "b", ": ", "s">>
    /\ result.text = <<"d", "o", "n", "e">>

\* C4: when the marker of the leader's response names an agent that is not
\* in the roster (a name differing only in letter case included), chat
\* raises nothing, performs no member exchange and no second leader
\* exchange, and returns the leader's first response unchanged.
C4_UnknownAgent ==
    (IsLeader /\ Len(log) >= 1 /\ log[1].reply.status = "ok") =>
        LET m == Search(log[1].reply.text)
        IN (m.matched /\ Strip(m.group1) \notin RosterNames) =>
              /\ Len(log) = 1
              /\ pc = "idle"
              /\ result = Returned(log[1].reply.text)

C4_Witness ==
    /\ IsLeader /\ Len(log) = 1 /\ CallReturned
    /\ Search(log[1].reply.text).matched
    /\ Search(log[1].reply.text).group1 = <<"A">>
    /\ <<"a">> \in RosterNames

\* C5: the delegation decision is taken from the first occurrence of the
\* convention alone: at most one member is contacted in a call, it is the
\* one named by the first occurrence, and later occurrences cause no
\* exchange.
C5_FirstOccurrence ==
    (IsLeader /\ Len(log) >= 1 /\ log[1].reply.status = "ok") =>
        LET t == log[1].reply.text
            occ == Occurrences(t)
        IN /\ Cardinality(MemberExchanges) <= 1
           /\ \A i \in MemberExchanges :
                 /\ occ # {}
                 /\ team[NameOfAgent(log[i].agent)].name =
                       Strip(MatchAt(t, SetMin(occ)).group1)
           /\ (occ # {} /\ Strip(MatchAt(t, SetMin(occ)).group1) \notin RosterNames)
                 => MemberExchanges = {}

\* the first occurrence names no roster member, a later one does, and the
\* call returned without contacting anyone
C5_Witness ==
    /\ IsLeader /\ CallReturned /\ Len(log) = 1
    /\ LET t == log[1].reply.text
           occ == Occurrences(t)
       IN /\ Cardinality(occ) >= 2
          /\ Strip(MatchAt(t, SetMin(occ)).group1) \notin RosterNames
          /\ Strip(MatchAt(t, SetMax(occ)).group1) \in RosterNames

\* C7: after MultiAssistantWithLeader.reset() has returned, the leader's
\* thread and the thread of every team member are empty threads that did
\* not exist before the reset.
C7_LeaderResetAll ==
    [][(IsLeader /\ resets' = resets + 1 /\ reset_result' = "returned") =>
          /\ thread' > Len(threads)
          /\ threads'[thread'].turns = <<>>
          /\ threads'[thread'].owner = agent.id
          /\ \A i \in DOMAIN team :
                /\ team[i].name \in DOMAIN team_threads'
                /\ team_threads'[team[i].name] > Len(threads)
                /\ team_threads'[team[i].name] # thread'
                /\ threads'[team_threads'[team[i].name]].turns = <<>>]_vars

\* a reset returned after a call that delegated to one member and not to the
\* other: all three threads of before the reset hold turns or were never
\* used, and every current thread is new and empty
C7_Witness ==
    /\ IsLeader /\ reset_result = "returned" /\ fresh /\ calls = 1
    /\ Cardinality(RosterNames) = 2
    /\ threads[1].turns # <<>>
    /\ threads[2].turns # <<>>
    /\ threads[3].turns = <<>>
    /\ thread > 3
    /\ \A n \in RosterNames : team_threads[n] > 3 /\ threads[team_threads[n]].turns = <<>>

\* every turn of a transcript was appended by the given call
OnlyOwnTurns(prior, call) == \A k \in 1..Len(prior) : prior[k].call = call

IsName(n) == n # <<>> /\ \A k \in 1..Len(n) : n[k] \notin {"[", "]", " ", "\n"}
IsLine(x) == x # <<>> /\ Strip(x) = x /\ \A k \in 1..Len(x) : x[k] # "\n"
HoldsBracketedName(t) ==
    \E i, j \in 1..Len(t) :
        /\ i + 1 < j
        /\ t[i] = "["
        /\ t[j] = "]"
        /\ \A k \in (i + 1)..(j - 1) : t[k] # "]"

\* C6: parsing a leader response of the form "[Name] text" (Name a name
\* without brackets or blanks, text a trimmed single line) yields target =
\* Name and instruction = text, and a response holding no bracketed name
\* yields no delegation.
C6_MarkerParsing ==
    \A p \in parsed :
        /\ \A j \in 3..(Len(text) - 2) :
              ( /\ text[1] = "["
                /\ text[j] = "]"
                /\ text[j + 1] = " "
                /\ IsName(SubSeq(text, 2, j - 1))
                /\ IsLine(SubSeq(text, j + 2, Len(text))) )
              => p = [matched          |-> TRUE,
                      team_member_name |-> SubSeq(text, 2, j - 1),
                      instruction      |-> SubSeq(text, j + 2, Len(text))]
        /\ ~HoldsBracketedName(text) => ~p.matched

\* "[a] [b]x" was parsed
C6_Witness ==
    /\ text = <<"[", "a", "]", " ", "[", "b", "]", "x">>
    /\ parsed = {[matched |-> TRUE, team_member_name |-> <<"a">>,
                  instruction |-> <<"[", "b", "]", "x">>]}

IsShadow == kind = "SingleAssistantShadow"

\* C8: if the planning exchange fails, the execution exchange is never
\* started in that call, no thread receives a turn of the call, and chat
\* raises the planner's failure.
C8_PlanFailureAborts ==
    (IsShadow /\ Len(log) >= 1 /\ log[1].reply.status = "failed") =>
        /\ Len(log) = 1
        /\ pc = "idle"
        /\ result = Raised(log[1].reply.text)
        /\ stream.call # calls
        /\ \A tid \in DOMAIN threads :
              \A k \in 1..Len(threads[tid].turns) :
                  threads[tid].turns[k].call # calls

\* the planning exchange of a second call failed; the primary thread holds
\* the turns of the first call
C8_Witness ==
    /\ IsShadow /\ calls = 2 /\ Len(log) = 1 /\ log[1].reply.status = "failed"
    /\ threads[thread].turns # <<>>

\* C9: reset() clears both threads together: in no state is the primary
\* thread a fresh one minted by a reset while the shadow thread is an older
\* thread that still holds turns.
C9_BothClearedTogether ==
    IsShadow =>
        ~ ( /\ thread > shadow_thread
            /\ threads[thread].turns = <<>>
            /\ threads[shadow_thread].turns # <<>> )

\* C10 as stated: every chat call that returns has performed exactly two
\* backend exchanges.
C10_AlwaysTwoExchanges ==
    (IsShadow /\ pc = "idle" /\ result.status \in {"returned", "stream"})
        => Len(log) = 2

\* turns are only ever appended, and the thread attributes stay
IsPrefix(a, b) == Len(a) <= Len(b) /\ SubSeq(b, 1, Len(a)) = a

C10_Step ==
    (IsShadow /\ resets' = resets) =>
        /\ thread' = thread
        /\ shadow_thread' = shadow_thread
        /\ \A tid \in DOMAIN threads :
              IsPrefix(threads[tid].turns, threads'[tid].turns)

\* the exchanges of the current call, the stream it returned, and the turns
\* each thread holds
C10_State ==
    IsShadow =>
        /\ Len(log) <= 2
        /\ Len(log) >= 1 =>
              /\ log[1].step = "plan"
              /\ log[1].agent = shadow_agent.id
              /\ threads[log[1].thread].owner = shadow_agent.id
              /\ log[1].msg = <<"Create an execution plan for: ">> \o frame.message
        /\ Len(log) = 2 =>
              /\ ~frame.stream
              /\ log[1].reply.status = "ok"
              /\ log[2].step = "execute"
              /\ log[2].agent = agent.id
              /\ threads[log[2].thread].owner = agent.id
              /\ log[2].msg =
                    <<"\n", "Execute the following plan:", "\n", "\n">>
                    \o log[1].reply.text
                    \o <<"\n", "\n", "Original request: ">>
                    \o frame.message \o <<"\n">>
        /\ CallReturned => Len(log) = 2
        /\ result.status = "stream" =>
              /\ frame.stream
              /\ Len(log) = 1
              /\ log[1].reply.status = "ok"
              /\ stream.call = calls
              /\ stream.agent = agent.id
              /\ threads[stream.thread].owner = agent.id
              /\ stream.msg =
                    <<"\n", "Execute the following plan:", "\n", "\n">>
                    \o log[1].reply.text
                    \o <<"\n", "\n", "Original request: ">>
                    \o frame.message \o <<"\n">>
        /\ \A tid \in DOMAIN threads :
              \A k \in 1..Len(threads[tid].turns) :
                  threads[tid].turns[k].step =
                      IF threads[tid].owner = shadow_agent.id THEN "plan"
                      ELSE "execute"

\* C10 amended: a chat call performs the planning exchange on the shadow
\* thread first; with stream=False it then performs the execution exchange
\* on the primary thread, whose message carries the plan of this call and
\* the original message, and returns after exactly two exchanges; with
\* stream=True it returns after the planning exchange with the unstarted
\* stream of that execution exchange.  Without reset both threads keep
\* their turns and neither receives a turn of the other.
C10_PlanThenExecute == []C10_State /\ [][C10_Step]_vars

\* a second call without reset returned after two exchanges, each given the
\* two turns the first call left on its thread
C10_Witness ==
    /\ IsShadow /\ calls = 2 /\ resets = 0 /\ CallReturned /\ Len(log) = 2
    /\ Len(log[1].prior) = 2
    /\ Len(log[2].prior) = 2

IsSingle == kind = "SingleAssistant"

\* the thread the last chat call was bound to, the number of turns its
\* exchange was given, and whether that exchange was answered
PrevThread == IF log # <<>> THEN log[1].thread ELSE stream.thread
PrevObserved == IF log # <<>> THEN Len(log[1].prior) ELSE Len(stream.prior)
PrevAnswered ==
    IF log # <<>> THEN log[1].reply.status = "ok"
    ELSE stream.state = "done" /\ stream.reply.status = "ok"

C11_Step ==
    IsSingle =>
        /\ thread' # thread => (resets' = resets + 1 /\ thread' > Len(threads))
        /\ \A tid \in DOMAIN threads :
              IsPrefix(threads[tid].turns, threads'[tid].turns)
        /\ calls' = calls + 1 =>
              /\ log' # <<>> =>
                    /\ log'[1].thread = thread
                    /\ log'[1].prior = threads[thread].turns
              /\ log' = <<>> =>
                    (stream'.state = "pending" /\ stream'.thread = thread)
              /\ (log' # <<>> /\ (calls = 0 \/ PrevThread # thread))
                    => log'[1].prior = <<>>
              /\ (log' # <<>> /\ calls >= 1 /\ PrevThread = thread /\ PrevAnswered)
                    => Len(log'[1].prior) >= PrevObserved + 2

IsMulti == kind = "MultiAssistant"
HoldsToken(t) == \E k \in 1..Len(t) : t[k] = "TERMINATE"
NoTokenSoFar ==
    \A i \in 1..Len(log) : log[i].reply.status = "ok" => ~HoldsToken(log[i].reply.text)

C12_State ==
    IsMulti =>
        /\ Len(log) <= max_rounds
        /\ pc = "group_select" => Len(log) < max_rounds
        /\ \A i \in 1..Len(log) : log[i].step = "round" /\ log[i].call = calls
        /\ (CallReturned /\ NoTokenSoFar) => Len(log) = max_rounds

\* C12: a MultiAssistant.chat call configured with max_rounds = N performs
\* at most N selected agent exchanges, has ended once the N-th is answered,
\* has performed exactly N when it returns and no response held the
\* termination token, and every started call ends.
C12_RoundBudget == []C12_State /\ ((IsMulti /\ pc # "idle") ~> (pc = "idle"))

\* a call configured with 2 rounds returned after 2 exchanges, neither
\* response holding the token
C12_Witness ==
    /\ IsMulti /\ max_rounds = 2 /\ CallReturned /\ NoTokenSoFar /\ Len(log) = 2

\* C13: a response that holds the termination token is the last exchange
\* of its session: the call has returned with it and no further agent is
\* selected, also when max_rounds is not yet reached.
C13_EndsAtToken ==
    IsMulti =>
        \A i \in 1..Len(log) :
            (log[i].reply.status = "ok" /\ HoldsToken(log[i].reply.text)) =>
                /\ i = Len(log)
                /\ pc = "idle"
                /\ result.status = "returned"

\* the first response of a session with a budget of 2 rounds held the token
\* and the call returned after that one exchange
C13_Witness ==
    /\ IsMulti /\ max_rounds = 2 /\ CallReturned /\ Len(log) = 1
    /\ HoldsToken(log[1].reply.text)

\* C14: MultiAssistant.reset() assigns an empty conversation_history and
\* nothing else: the roster and its agent handles, max_rounds, the selector,
\* every thread and a session in progress are as before the reset.
C14_ResetCacheOnly ==
    [][(IsMulti /\ resets' = resets + 1) =>
          /\ conversation_history' = <<>>
          /\ reset_result' = "returned"
          /\ UNCHANGED <<team, agent, shadow_agent, max_rounds, max_turns,
                         selector_func,
                         rag_retriever, threads, thread, shadow_thread,
                         team_threads>>
          /\ UNCHANGED <<pc, frame, log, result, stream, calls>>]_vars

\* a reset returned after a session of two rounds run with a custom selector
C14_Witness ==
    /\ IsMulti /\ reset_result = "returned" /\ fresh /\ calls = 1 /\ resets = 1
    /\ selector_func = "custom" /\ max_rounds = 2 /\ Len(log) = 2
    /\ Len(team) = 2

IsRag == kind = "SingleAssistantRAG"
\* a chat(message) call (stream=False) has ended
PlainCallEnded == calls >= 1 /\ pc = "idle" /\ ~frame.stream

\* C15: when the retriever failed to initialize (self.rag_retriever is
\* None), every chat(message) performs exactly one backend exchange, whose
\* message is the raw message, and returns its response; the only error a
\* call can end with is the failure of that exchange itself.
C15_FailedInitDegrades ==
    (IsRag /\ rag_retriever = "none") =>
        /\ Len(log) <= 1
        /\ \A i \in 1..Len(log) :
              /\ log[i].msg = frame.message
              /\ log[i].agent = agent.id
        /\ (stream.call = calls /\ calls >= 1) => stream.msg = frame.message
        /\ PlainCallEnded =>
              /\ Len(log) = 1
              /\ log[1].reply.status = "ok" => result = Returned(log[1].reply.text)
              /\ result.status = "raised" =>
                    (log[1].reply.status = "failed" /\ result.text = log[1].reply.text)

\* the second chat call on an instance whose retriever failed to initialize
\* returned the response to its raw message
C15_Witness ==
    /\ IsRag /\ rag_retriever = "none" /\ calls = 2 /\ CallReturned
    /\ log[1].msg = <<"B">>
    /\ result = Returned(<<"s">>)

\* C16: when no documents path was supplied, every chat(message) performs
\* one backend exchange with the raw message and ends with no error other
\* than a failure of that exchange.
C16_NoRetrieverDegrades ==
    (IsRag /\ rag_retriever = "unset" /\ PlainCallEnded) =>
        /\ Len(log) = 1
        /\ log[1].msg = frame.message
        /\ result.status = "raised" => log[1].reply.status = "failed"

\* C17: when the retriever was initialized, no chat(message) ends with the
\* failure of the retrieve call: every call performs its backend exchange
\* and an error that reaches the caller is the failure of that exchange.
C17_RetrievalFailureCaught ==
    (IsRag /\ rag_retriever = "ok" /\ PlainCallEnded) =>
        /\ Len(log) = 1
        /\ result.status = "raised" => log[1].reply.status = "failed"

\* the threads the workflow holds in its attributes
Owned ==
    ({thread, shadow_thread} \cup {team_threads[n] : n \in DOMAIN team_threads})
        \ {0}

\* C18: every exchange and every stream is given a thread minted by the
\* agent handle that performs it, so no thread is ever used by two handles
\* (two roster entries of the same name included).
C18_OneHandlePerThread ==
    /\ \A i \in 1..Len(log) :
          log[i].thread # 0 => threads[log[i].thread].owner = log[i].agent
    /\ stream.state # "none" => threads[stream.thread].owner = stream.agent

\* C19: once the last reset() has returned and no chat call is suspended, a
\* thread the workflow no longer holds (one it owned before that reset) is
\* never changed again, neither by an exchange started afterwards nor by a
\* stream obtained before the reset and iterated afterwards.
C19_AbandonedThreadsFrozen ==
    [][(reset_result = "returned" /\ resets' = resets /\ pc = "idle") =>
          \A tid \in DOMAIN threads :
              tid \notin Owned => threads'[tid] = threads[tid]]_vars

\* C20: no reset() call raises, and whenever a reset() (the first or a
\* repeated one) has returned with no chat started since, every thread the
\* workflow owns is empty.
C20_ResetTotalIdempotent ==
    /\ reset_result # "raised"
    /\ (reset_result = "returned" /\ fresh) =>
          \A tid \in Owned : threads[tid].turns = <<>>

C21_Step ==
    UNCHANGED <<kind, agent, shadow_agent, team, max_rounds, max_turns, selector_func,
                rag_retriever>>

\* a workflow on which reset() returned with no chat started since is as
\* constructed: every owned thread is empty and minted by the handle it
\* belongs to, and the team threads are keyed by the roster's names
C21_State ==
    /\ thread # 0 => threads[thread].owner = agent.id
    /\ shadow_thread # 0 => threads[shadow_thread].owner = shadow_agent.id
    /\ \A n \in DOMAIN team_threads :
          \E i \in DOMAIN team :
              team[i].name = n /\ threads[team_threads[n]].owner = team[i].id
    /\ (reset_result = "returned" /\ fresh) =>
          /\ \A tid \in Owned : threads[tid].turns = <<>>
          /\ conversation_history = <<>>
          /\ IsLeader => DOMAIN team_threads = RosterNames

\* C21: no chat or reset step changes the primary (leader), shadow or roster
\* handles or the static options, every owned thread was minted by the
\* handle it belongs to, and after a reset that returned the workflow is as
\* constructed but for the identity of its threads.
C21_HandlesFixed == []C21_State /\ [][C21_Step]_vars

\* a shadow workflow was reset after a call that used both threads
C21_Witness ==
    /\ IsShadow /\ reset_result = "returned" /\ fresh /\ calls = 2 /\ resets = 1
    /\ threads[1].turns # <<>>
    /\ threads[2].turns # <<>>
    /\ agent = Handle(PrimaryId, PrimaryName)
    /\ Owned = {3, 4}

\* C22: in every pattern a failed backend exchange is the last exchange of
\* its chat call: the call has ended, raising that failure unchanged, and
\* no exchange (no retry, no feedback, no execution, no further round) was
\* started after it.
C22_FailurePropagates ==
    \A i \in 1..Len(log) :
        log[i].reply.status = "failed" =>
            /\ i = Len(log)
            /\ pc = "idle"
            /\ result = Raised(log[i].reply.text)
            /\ \A j \in 1..(i - 1) : log[j].reply.status = "ok"

\* the member exchange of a delegating call failed
C22_Witness ==
    /\ IsLeader /\ Len(log) = 2 /\ log[2].step = "member"
    /\ log[2].reply = Failed(<<"TransportError">>)
    /\ result = Raised(<<"TransportError">>)

\* the configurations a constructor call creates agents from, in order
ConfigsOf(req) ==
    IF req.call = "MultiAssistant" THEN req.team ELSE <<req.primary>> \o req.team
\* the configuration names no registered agent
Unregistered(cfg) ==
    (cfg.type = "dict" /\ ~cfg.has_name) \/ cfg.name \notin Registered

\* C23: a constructor or create_agent call in which some agent
\* configuration (primary, leader, roster or team entry; a name, or a
\* mapping whose name is missing or unregistered) names no registered agent
\* raises an error that lists the registered identifiers and yields no
\* instance; a call whose configurations are all registered creates one
\* agent per configuration.
C23_UnknownAgentRejected ==
    \A o \in outcome :
        LET cfgs == ConfigsOf(request)
            bad == {i \in DOMAIN cfgs : Unregistered(cfgs[i])}
        IN IF bad # {}
           THEN /\ o.status = "raised"
                /\ o.error = "ValueError"
                /\ o.available = AgentNames
                /\ o.agents = <<>>
                /\ o.agent_name \notin Registered
           ELSE /\ o.status \in {"created", "constructed"}
                /\ Len(o.agents) = Len(cfgs)
                /\ \A i \in DOMAIN cfgs : o.agents[i].name = cfgs[i].name

\* a leader workflow whose second team entry is a mapping without a name
C23_Witness ==
    /\ request.call = "MultiAssistantWithLeader"
    /\ request.primary = Named(<<"L">>)
    /\ request.team = << Named(<<"a">>), MappingWithoutName >>
    /\ \E o \in outcome :
          /\ o.status = "raised"
          /\ o.agent_name = <<"TeamMember">>
          /\ o.available = AgentNames

\* C24: every agent a call creates holds the tools of every toolkit its
\* configuration references: a reference missing from the supplied registry
\* makes the call fail.
C24_MissingToolkitRejected ==
    \A o \in outcome :
        \A i \in DOMAIN o.agents :
            o.agents[i].tools = ToolkitsOf(o.agents[i].name)

\* C25: every exchange a SingleAssistant.chat call performs, and every
\* stream it returns, is given the max_turns of the instance.
C25_TurnLimitForwarded ==
    IsSingle =>
        /\ \A i \in 1..Len(log) : log[i].kwargs = {<<"max_turns", max_turns>>}
        /\ stream.state # "none" => stream.kwargs = {<<"max_turns", max_turns>>}

\* C26: of the exchanges of a chat call only the last can be unanswered:
\* every exchange before it was answered before the next one was started,
\* an exchange is in flight exactly while the call is suspended at it, and
\* all exchanges belong to the one call in progress.
C26_OneExchangeInFlight ==
    /\ \A i \in 1..(Len(log) - 1) : log[i].reply.status = "ok"
    /\ \A i \in 1..Len(log) : log[i].call = calls
    /\ (Len(log) >= 1 /\ Last(log).reply.status = "pending")
          <=> pc \notin {"idle", "group_select"}
    /\ Cardinality({i \in 1..Len(log) : log[i].reply.status = "pending"}) <= 1

\* the feedback exchange of a delegating call is in flight, the leader and
\* the member exchange before it were answered
C26_Witness ==
    /\ IsLeader /\ pc = "feedback_run" /\ Len(log) = 3
    /\ log[1].reply.status = "ok"
    /\ log[2].reply.status = "ok"
    /\ log[3].reply.status = "pending"

\* C27: every leader exchange of one MultiAssistantWithLeader.chat call is
\* sent on the thread of the call's first leader exchange, so the feedback
\* always goes to the thread that holds the delegating response, also when
\* a reset() returned while the call was suspended.
C27_OneLeaderThreadPerCall ==
    (IsLeader /\ reset_result # "raised") =>
        \A i \in 1..Len(log) :
            log[i].step \in {"leader", "feedback"} => log[i].thread = log[1].thread

\* the turns of the given call and step that a transcript holds
TurnsFrom(turns, call, step) ==
    {k \in 1..Len(turns) : turns[k].call = call /\ turns[k].step = step}

C28_Step ==
    (kind \in {"MultiAssistantWithLeader", "SingleAssistantShadow"}
        /\ resets' = resets) =>
        /\ UNCHANGED <<thread, shadow_thread, team_threads>>
        /\ \A tid \in DOMAIN threads :
              IsPrefix(threads[tid].turns, threads'[tid].turns)
        /\ calls' = calls + 1 =>
              /\ log'[1].thread = IF IsLeader THEN thread ELSE shadow_thread
              /\ log'[1].prior = threads[log'[1].thread].turns

C28_State ==
    /\ (IsLeader /\ Len(log) = 2 /\ log[2].reply.status = "failed") =>
          /\ pc = "idle" /\ result.status = "raised"
          /\ Cardinality(TurnsFrom(threads[log[1].thread].turns, calls, "leader")) = 2
    /\ (IsShadow /\ Len(log) = 2 /\ log[2].reply.status = "failed") =>
          /\ pc = "idle" /\ result.status = "raised"
          /\ Cardinality(TurnsFrom(threads[log[1].thread].turns, calls, "plan")) = 2

\* C28: a chat call replaces no thread and removes no turn, whether it
\* fails or not: after a failed member exchange the leader thread of the call
\* holds the turns of the call's leader exchange, after a failed execution
\* exchange the shadow thread holds its planning turns, and the next call is
\* sent on the current threads with all the turns they hold.
C28_NoRollback == []C28_State /\ [][C28_Step]_vars

\* the member exchange of a second call failed: the leader thread holds the
\* turns of the first call and of the second call's leader exchange
C28_Witness ==
    /\ IsLeader /\ calls = 2 /\ resets = 0 /\ Len(log) = 2
    /\ log[2].reply.status = "failed"
    /\ thread = 1
    /\ Len(threads[1].turns) >= 4

\* C29: the instruction of every member exchange is a non-empty single
\* line without leading or trailing whitespace.
C29_InstructionIsALine ==
    IsLeader =>
        \A i \in MemberExchanges :
            /\ log[i].msg # <<>>
            /\ Strip(log[i].msg) = log[i].msg
            /\ \A k \in 1..Len(log[i].msg) : log[i].msg[k] # "\n"

\* C30: extract_response_text is total and always gives a text string: for
\* every shape it returns without raising, and what it returns is a str, also
\* when the text attribute or the mapping's text value is missing, empty or
\* not a str; the text attribute goes before the list and mapping cases, and
\* a plain value is stringified.
C30_AlwaysAString ==
    \A r \in extracted :
        /\ r.status = "returned"
        /\ r.value.type = "str"
        /\ response.text # <<>> => r.value.str = response.text[1].str
        /\ response.base = "value" => r.value.str = response.value.str
====
